---- MODULE Spec2Model ----
(***************************************************************************)
(* A model of flexcli's DynamicCLI (src/flexcli.py): the command registry  *)
(* (register_command), resolution, listing with its cache, completion,     *)
(* help, and the run_async dispatch.                                       *)
(*                                                                         *)
(* Python strings that the code compares, sorts or prefix-matches are      *)
(* sequences of one-character strings.  Optional values are <<>> (None)    *)
(* or <<v>>.  The dicts commands, async_commands and docs are functions    *)
(* (their iteration order is never observed: list_commands sorts the       *)
(* keys); alias_map is an insertion-ordered sequence of <<alias, target>>  *)
(* pairs because get_command_aliases exposes its iteration order.          *)
(***************************************************************************)
EXTENDS Integers, Sequences, FiniteSets, TLC

VARIABLES commands, async_commands, alias_map, docs, all_commands_cached,
          pc, remaining, registered, last

vars == <<commands, async_commands, alias_map, docs, all_commands_cached,
          pc, remaining, registered, last>>

registry == <<commands, async_commands, alias_map, docs>>

(* ------------------------------ bounds -------------------------------- *)
MaxAliases == 2
MaxArgs == 2
MaxSuspend == 2

(* ------------------------------ inputs -------------------------------- *)
HelpFlag == <<"-", "-", "h", "e", "l", "p">>
EmptyStr == <<>>
StrA == <<"a">>
StrAB == <<"a", "b">>
Dash == <<"-">>
\* the strings offered as command names, aliases and first tokens
Strs == {EmptyStr, StrA, HelpFlag}
\* the prefixes offered to complete_command
Prefixes == {EmptyStr, Dash, StrA, StrAB, HelpFlag}
Handlers == {"h1", "h2"}
DefaultDoc == "No description provided."
MissingDoc == "No description available."
DocArgs == {<<>>, <<"">>, <<"d1">>}
\* the (handler, async_handler, doc) triples offered to register_command
Profiles ==
  {[handler |-> "h1", async_handler |-> FALSE, doc |-> <<"d1">>],
   [handler |-> "h2", async_handler |-> FALSE, doc |-> <<>>],
   [handler |-> "h1", async_handler |-> TRUE, doc |-> <<"">>]}
\* how the call `handler(*args)` / `await handler(*args)` ends: it returns,
\* raises an Exception (a TypeError for unfitting arguments included), or
\* raises a BaseException that is no Exception
Outcomes == {"ok", "exc", "base"}
ErrText == "boom"

None == <<>>
Some(x) == <<x>>

(* ------------------------- string primitives -------------------------- *)
CharCode(c) ==
  CASE c = "-" -> 45
    [] c = "a" -> 97
    [] c = "b" -> 98
    [] c = "e" -> 101
    [] c = "h" -> 104
    [] c = "l" -> 108
    [] c = "p" -> 112

RECURSIVE StrLess(_, _)
StrLess(s, t) ==
  IF s = <<>> THEN t # <<>>
  ELSE IF t = <<>> THEN FALSE
  ELSE IF Head(s) = Head(t) THEN StrLess(Tail(s), Tail(t))
  ELSE CharCode(Head(s)) < CharCode(Head(t))

StrLeq(s, t) == s = t \/ StrLess(s, t)

StartsWith(s, prefix) ==
  /\ Len(prefix) <= Len(s)
  /\ SubSeq(s, 1, Len(prefix)) = prefix

RECURSIVE InsertSorted(_, _)
InsertSorted(x, sq) ==
  IF sq = <<>> THEN <<x>>
  ELSE IF StrLess(x, Head(sq)) THEN <<x>> \o sq
  ELSE <<Head(sq)>> \o InsertSorted(x, Tail(sq))

RECURSIVE Sorted(_)
Sorted(sq) ==
  IF sq = <<>> THEN <<>>
  ELSE InsertSorted(sq[Len(sq)], Sorted(SubSeq(sq, 1, Len(sq) - 1)))

RECURSIVE SetToSeq(_)
SetToSeq(S) ==
  IF S = {} THEN <<>>
  ELSE LET x == CHOOSE y \in S : TRUE IN <<x>> \o SetToSeq(S \ {x})

RECURSIVE Filter(_, _)
Filter(sq, prefix) ==
  IF sq = <<>> THEN <<>>
  ELSE IF StartsWith(Head(sq), prefix)
       THEN <<Head(sq)>> \o Filter(Tail(sq), prefix)
       ELSE Filter(Tail(sq), prefix)

Range(sq) == {sq[i] : i \in 1..Len(sq)}

(* ------------------------------- dicts -------------------------------- *)
EmptyDict == <<>>
Put(d, k, v) == [x \in (DOMAIN d) \cup {k} |-> IF x = k THEN v ELSE d[x]]

AliasKeysSeq(am) == [i \in 1..Len(am) |-> am[i][1]]
AliasKeys(am) == {am[i][1] : i \in 1..Len(am)}
AliasGet(am, k) ==
  IF k \in AliasKeys(am)
  THEN Some(am[CHOOSE i \in 1..Len(am) : am[i][1] = k][2])
  ELSE None
AliasPutSelfTarget(am, k, v) == Append(am, <<k, k>>)

AliasPut(am, k, v) ==
  IF k \in AliasKeys(am)
  THEN [i \in 1..Len(am) |-> IF am[i][1] = k THEN <<k, v>> ELSE am[i]]
  ELSE Append(am, <<k, v>>)

(* ------------------------------ registry ------------------------------ *)
NameTakenIgnoringAliases(n, cmds, acmds, am) ==
  (n \in DOMAIN cmds) \/ (n \in DOMAIN acmds)

NameTakenIgnoringAsync(n, cmds, acmds, am) ==
  (n \in DOMAIN cmds) \/ (n \in AliasKeys(am))

NameTaken(n, cmds, acmds, am) ==
  (n \in DOMAIN cmds) \/ (n \in DOMAIN acmds) \/ (n \in AliasKeys(am))

DocOrDefault(doc) == IF doc = None \/ doc[1] = "" THEN DefaultDoc ELSE doc[1]

RECURSIVE InstallAliasesUnchecked(_, _, _, _, _)
InstallAliasesUnchecked(am, cmds, acmds, aliases, name) ==
  IF aliases = <<>> THEN [am |-> am, ok |-> TRUE]
  ELSE InstallAliasesUnchecked(AliasPut(am, Head(aliases), name), cmds, acmds,
                               Tail(aliases), name)

\* the alias loop of register_command: stops at the first colliding alias,
\* keeping the aliases installed before it
RECURSIVE InstallAliases(_, _, _, _, _)
InstallAliases(am, cmds, acmds, aliases, name) ==
  IF aliases = <<>> THEN [am |-> am, ok |-> TRUE]
  ELSE IF NameTaken(Head(aliases), cmds, acmds, am)
       THEN [am |-> am, ok |-> FALSE]
       ELSE InstallAliases(AliasPut(am, Head(aliases), name), cmds, acmds,
                           Tail(aliases), name)

ResolveSyncOnly(cmds, acmds, am, command_name) ==
  IF command_name \in DOMAIN cmds
  THEN Some(command_name)
  ELSE AliasGet(am, command_name)

\* _resolve_command: Some(primary) or None
ResolveIn(cmds, acmds, am, command_name) ==
  IF command_name \in DOMAIN cmds \/ command_name \in DOMAIN acmds
  THEN Some(command_name)
  ELSE AliasGet(am, command_name)

resolve_command(command_name) ==
  ResolveIn(commands, async_commands, alias_map, command_name)

\* Python truthiness of an Optional[str]: None and "" are falsy
Falsy(opt) == opt = None \/ opt[1] = <<>>

\* list_commands: the value returned, and the cache it leaves behind
ComputeListing ==
  Sorted(SetToSeq(DOMAIN commands) \o SetToSeq(DOMAIN async_commands))

list_commands ==
  IF all_commands_cached = None THEN ComputeListing
  ELSE all_commands_cached[1]

CacheEmptiedAfterList == Some(<<>>)

CacheAfterList == Some(list_commands)

\* get_command_aliases: aliases of command_name in alias_map order
RECURSIVE AliasesOfIn(_, _)
AliasesOfIn(am, command_name) ==
  IF am = <<>> THEN <<>>
  ELSE IF Head(am)[2] = command_name
       THEN <<Head(am)[1]>> \o AliasesOfIn(Tail(am), command_name)
       ELSE AliasesOfIn(Tail(am), command_name)

get_command_aliases(command_name) == AliasesOfIn(alias_map, command_name)

\* complete_command
complete_command(prefix) ==
  Sorted(Filter(list_commands, prefix) \o Filter(AliasKeysSeq(alias_map), prefix))

\* show_help: one line per listed command: name, tag, aliases
HelpLine(cmd) ==
  <<cmd, IF cmd \in DOMAIN async_commands THEN "(async)" ELSE "(sync)",
    get_command_aliases(cmd)>>

show_help ==
  <<"Help", [i \in 1..Len(list_commands) |-> HelpLine(list_commands[i])]>>

\* show_command_help
show_command_help(command_name) ==
  <<"CommandHelp", command_name,
    IF command_name \in DOMAIN docs THEN docs[command_name] ELSE MissingDoc>>

(* ------------------------------- inputs ------------------------------- *)
SeqsUpTo(S, n) == UNION {[1..k -> S] : k \in 0..n}
Distinct(sq) == \A i, j \in 1..Len(sq) : i # j => sq[i] # sq[j]
\* a set of aliases in each of its iteration orders
AliasOrders == {sq \in SeqsUpTo(Strs, MaxAliases) : Distinct(sq)}
ArgTokens == {StrA, HelpFlag}
ArgLists ==
  {<<>>} \cup {<<t>> \o rest : t \in Strs, rest \in SeqsUpTo(ArgTokens, MaxArgs - 1)}

Blank ==
  [op |-> "init", ok |-> TRUE, prefix |-> <<>>,
   args |-> <<>>, resolved |-> <<>>, branch |-> "none", status |-> "none",
   ended |-> "none", suspended |-> 0,
   exit |-> <<>>, out |-> <<>>, invoked |-> <<>>, result |-> <<>>]

Init ==
  /\ commands = EmptyDict
  /\ async_commands = EmptyDict
  /\ alias_map = <<>>
  /\ docs = EmptyDict
  /\ all_commands_cached = None
  /\ pc = "idle"
  /\ remaining = 0
  /\ registered = {}
  /\ last = Blank

(* ------------------------------ actions ------------------------------- *)
\* register_command (lines 43-60).  A taken name raises before anything is
\* written.  Otherwise the command and its doc are stored, then the aliases
\* are installed in iteration order; a colliding alias raises out of the
\* loop, which keeps what was written and skips the cache invalidation.
CacheKeptAfterRegister(ok) == all_commands_cached

CacheAfterRegister(ok) == IF ok THEN None ELSE all_commands_cached

\* what a call of register_command leaves behind, and whether it returned
\* (ok) or raised ValueError
RegisterResult(name, handler, async_handler, aliases, doc) ==
  IF NameTaken(name, commands, async_commands, alias_map)
  THEN [ok |-> FALSE, commands |-> commands,
        async_commands |-> async_commands, docs |-> docs,
        alias_map |-> alias_map, cache |-> all_commands_cached]
  ELSE LET cmds == IF async_handler THEN commands
                   ELSE Put(commands, name, handler)
           acmds == IF async_handler THEN Put(async_commands, name, handler)
                    ELSE async_commands
           r == InstallAliases(alias_map, cmds, acmds, aliases, name)
       IN [ok |-> r.ok, commands |-> cmds, async_commands |-> acmds,
           docs |-> Put(docs, name, DocOrDefault(doc)),
           alias_map |-> r.am, cache |-> CacheAfterRegister(r.ok)]

register_command(name, handler, async_handler, aliases, doc) ==
  \E r \in {RegisterResult(name, handler, async_handler, aliases, doc)} :
     /\ commands' = r.commands
     /\ async_commands' = r.async_commands
     /\ docs' = r.docs
     /\ alias_map' = r.alias_map
     /\ all_commands_cached' = r.cache
     /\ registered' = IF r.ok
                      THEN registered \cup {<<name, Range(aliases)>>}
                      ELSE registered
     /\ last' = [Blank EXCEPT !.op = "register", !.ok = r.ok]

\* Registry calls are taken between dispatches: after its await run_async
\* reads nothing of the registry, so a call made while a handler is
\* suspended has the effect of the same call made after the dispatch.
Register ==
  /\ pc = "idle"
  /\ \E name \in Strs :
       IF NameTaken(name, commands, async_commands, alias_map)
       THEN \* raises at line 43 whatever the other arguments are
            \E p \in {CHOOSE q \in Profiles : TRUE} :
              register_command(name, p.handler, p.async_handler, <<>>, p.doc)
       ELSE \E p \in Profiles, aliases \in AliasOrders :
              register_command(name, p.handler, p.async_handler, aliases, p.doc)
  /\ UNCHANGED <<pc, remaining>>

\* a call of list_commands
ListCommands ==
  /\ pc = "idle"
  /\ all_commands_cached' = CacheAfterList
  /\ last' = [Blank EXCEPT !.op = "list", !.result = list_commands]
  /\ UNCHANGED <<commands, async_commands, alias_map, docs, pc, remaining,
                 registered>>

\* a call of complete_command
CompleteCommand ==
  /\ pc = "idle"
  /\ \E prefix \in Prefixes :
       last' = [Blank EXCEPT !.op = "complete", !.prefix = prefix,
                             !.result = complete_command(prefix)]
  /\ all_commands_cached' = CacheAfterList
  /\ UNCHANGED <<commands, async_commands, alias_map, docs, pc, remaining,
                 registered>>

(* ------------------------------ dispatch ------------------------------ *)
BranchResolvingFirst(args) ==
  IF args = <<>> THEN "empty"
  ELSE IF Falsy(resolve_command(args[1])) THEN
         (IF args[1] = HelpFlag THEN "global_help" ELSE "unknown")
  ELSE IF Len(args) > 1 /\ args[2] = HelpFlag THEN "command_help"
  ELSE IF resolve_command(args[1])[1] \in DOMAIN commands THEN "sync"
  ELSE IF resolve_command(args[1])[1] \in DOMAIN async_commands THEN "async"
  ELSE "not_found"

\* the branch run_async takes on args (lines 166-197)
Branch(args) ==
  IF args = <<>> THEN "empty"
  ELSE IF args[1] = HelpFlag THEN "global_help"
  ELSE IF Falsy(resolve_command(args[1])) THEN "unknown"
  ELSE IF Len(args) > 1 /\ args[2] = HelpFlag THEN "command_help"
  ELSE IF resolve_command(args[1])[1] \in DOMAIN commands THEN "sync"
  ELSE IF resolve_command(args[1])[1] \in DOMAIN async_commands THEN "async"
  ELSE "not_found"

ShowsHelp(b) == b \in {"empty", "global_help", "unknown", "not_found"}

FinishRetrying(rec, outcome) ==
  CASE outcome = "ok" ->
         [rec EXCEPT !.status = "returned", !.ended = "ok", !.exit = <<0>>]
    [] outcome = "exc" ->
         [rec EXCEPT !.status = "returned", !.ended = "exc", !.exit = <<1>>,
                     !.invoked = rec.invoked \o rec.invoked,
                     !.out = Append(rec.out, <<"Failed", rec.resolved[1], ErrText>>)]
    [] outcome = "base" ->
         [rec EXCEPT !.status = "raised", !.ended = "base"]

FinishReturningZero(rec, outcome) ==
  CASE outcome = "ok" ->
         [rec EXCEPT !.status = "returned", !.ended = "ok", !.exit = <<0>>]
    [] outcome = "exc" ->
         [rec EXCEPT !.status = "returned", !.ended = "exc", !.exit = <<0>>,
                     !.out = Append(rec.out, <<"Failed", rec.resolved[1], ErrText>>)]
    [] outcome = "base" ->
         [rec EXCEPT !.status = "raised", !.ended = "base"]

FinishNamingTypedToken(rec, outcome) ==
  CASE outcome = "ok" ->
         [rec EXCEPT !.status = "returned", !.ended = "ok", !.exit = <<0>>]
    [] outcome = "exc" ->
         [rec EXCEPT !.status = "returned", !.ended = "exc", !.exit = <<1>>,
                     !.out = Append(rec.out, <<"Failed", rec.args[1], ErrText>>)]
    [] outcome = "base" ->
         [rec EXCEPT !.status = "raised", !.ended = "base"]

\* the end of a handler call: return, `except Exception`, or an exception
\* outside Exception (SystemExit, KeyboardInterrupt, CancelledError), which
\* the except clause of line 198 does not catch
Finish(rec, outcome) ==
  CASE outcome = "ok" ->
         [rec EXCEPT !.status = "returned", !.ended = "ok", !.exit = <<0>>]
    [] outcome = "exc" ->
         [rec EXCEPT !.status = "returned", !.ended = "exc", !.exit = <<1>>,
                     !.out = Append(rec.out, <<"Failed", rec.resolved[1], ErrText>>)]
    [] outcome = "base" ->
         [rec EXCEPT !.status = "raised", !.ended = "base"]

\* run_async up to its first suspension (or its end).  The handler's
\* behaviour on this call is hb: it ends at once with an outcome, or it is a
\* coroutine that suspends hb.suspends times before it ends.
Behaviours ==
  {[outcome |-> o, suspends |-> 0] : o \in Outcomes}
    \cup {[outcome |-> "later", suspends |-> k] : k \in 1..MaxSuspend}

\* `await handler(*args)` (line 193) with the coroutine just started: run_async
\* goes on only when the coroutine is done
AwaitHandlerNotAwaiting(started, hb) ==
  [started EXCEPT !.status = "returned", !.ended = "ok", !.exit = <<0>>]

AwaitHandler(started, hb) ==
  IF hb.suspends = 0 THEN Finish(started, hb.outcome) ELSE started

Dispatch(args, hb) ==
  LET b == Branch(args)
      rec == [Blank EXCEPT !.op = "run", !.args = args, !.branch = b]
      rc == resolve_command(args[1])
  IN CASE b = "empty" ->
            [rec EXCEPT !.out = <<<<"NoCommand">>, show_help>>,
                        !.status = "returned", !.exit = <<1>>]
       [] b = "global_help" ->
            [rec EXCEPT !.out = <<show_help>>,
                        !.status = "returned", !.exit = <<0>>]
       [] b = "unknown" ->
            [rec EXCEPT !.out = <<<<"Unknown", args[1]>>, show_help>>,
                        !.resolved = rc,
                        !.status = "returned", !.exit = <<1>>]
       [] b = "command_help" ->
            [rec EXCEPT !.out = <<show_command_help(rc[1])>>,
                        !.resolved = rc,
                        !.status = "returned", !.exit = <<0>>]
       [] b = "sync" ->
            Finish([rec EXCEPT !.resolved = rc,
                               !.invoked = <<<<commands[rc[1]], Tail(args)>>>>],
                   IF hb.suspends = 0 THEN hb.outcome ELSE "ok")
       [] b = "async" ->
            LET started == [rec EXCEPT !.resolved = rc, !.status = "pending",
                              !.invoked = <<<<async_commands[rc[1]], Tail(args)>>>>]
            IN AwaitHandler(started, hb)
       [] b = "not_found" ->
            [rec EXCEPT !.out = <<<<"NotFound", rc[1]>>, show_help>>,
                        !.resolved = rc,
                        !.status = "returned", !.exit = <<1>>]

\* the handler behaviours that make a difference on a branch: none where no
\* handler is called, only the outcome where the call is not awaited
BehavioursOn(b) ==
  CASE b = "async" -> Behaviours
    [] b = "sync" -> {hb \in Behaviours : hb.suspends = 0}
    [] OTHER -> {[outcome |-> "ok", suspends |-> 0]}

RunAsync ==
  /\ pc = "idle"
  /\ \E args \in ArgLists :
       \E b \in {Branch(args)} :
         \E hb \in BehavioursOn(b) :
           /\ last' = Dispatch(args, hb)
           /\ all_commands_cached' = IF ShowsHelp(b) THEN CacheAfterList
                                     ELSE all_commands_cached
           /\ pc' = IF b = "async" /\ hb.suspends > 0 THEN "awaiting"
                    ELSE "idle"
           /\ remaining' = IF b = "async" THEN hb.suspends ELSE 0
  /\ UNCHANGED <<commands, async_commands, alias_map, docs, registered>>

\* the event loop resumes the suspended handler (the await of line 193)
Resume ==
  /\ pc = "awaiting"
  /\ IF remaining > 1
     THEN /\ remaining' = remaining - 1
          /\ last' = [last EXCEPT !.suspended = @ + 1]
          /\ UNCHANGED pc
     ELSE /\ \E outcome \in Outcomes :
               last' = Finish([last EXCEPT !.suspended = @ + 1], outcome)
          /\ pc' = "idle"
          /\ remaining' = 0
  /\ UNCHANGED <<commands, async_commands, alias_map, docs,
                 all_commands_cached, registered>>

Next == Register \/ ListCommands \/ CompleteCommand \/ RunAsync \/ Resume

Spec == Init /\ [][Next]_vars

\* asyncio.run drives the event loop until the coroutine is done
FairSpec == Spec /\ WF_vars(Resume)

(* ------------------------------ claims -------------------------------- *)
Primaries == (DOMAIN commands) \cup (DOMAIN async_commands)
Aliases == AliasKeys(alias_map)

StrictlyAscending(sq) == \A i \in 1..(Len(sq) - 1) : StrLess(sq[i], sq[i + 1])

\* C1 (as claimed): a register call that fails leaves the registry as it
\* was: the command tables, the docs and the alias table are unchanged, and
\* list_commands, get_command_aliases and _resolve_command answer as before.
C1_FailedRegisterChangesNothing ==
  [][(last'.op = "register" /\ ~last'.ok) =>
       /\ registry' = registry
       /\ list_commands' = list_commands
       /\ \A s \in Strs :
            /\ get_command_aliases(s)' = get_command_aliases(s)
            /\ resolve_command(s)' = resolve_command(s)]_vars

\* C2: the primary names and the aliases are disjoint, no name is both a
\* synchronous and an asynchronous command, and each alias has one entry
\* (one target) in the alias table.
C2_NamespaceInvariant ==
  /\ Primaries \cap Aliases = {}
  /\ (DOMAIN commands) \cap (DOMAIN async_commands) = {}
  /\ Distinct(AliasKeysSeq(alias_map))

C2_Witness ==
  /\ last.op = "register" /\ ~last.ok
  /\ DOMAIN commands # {}
  /\ DOMAIN async_commands # {}
  /\ Len(alias_map) >= 1

\* C3: every successfully registered name resolves to itself and each of
\* its aliases resolves to it, whatever was registered since; a string
\* that is neither a command name nor an alias resolves to None.
C3_ResolveAfterRegister ==
  /\ \A reg \in registered :
       /\ resolve_command(reg[1]) = Some(reg[1])
       /\ \A a \in reg[2] : resolve_command(a) = Some(reg[1])
  /\ \A s \in Strs \cup Prefixes :
       s \notin Primaries \cup Aliases => resolve_command(s) = None

C3_Witness ==
  /\ last.op = "register" /\ ~last.ok
  /\ \E reg \in registered : reg[1] \in DOMAIN async_commands /\ reg[2] # {}
  /\ \E s \in Strs : s \notin Primaries \cup Aliases

\* C4: what list_commands returns is strictly ascending (sorted, without
\* duplicates) and holds every name registered successfully so far, also
\* when the cache was filled by an earlier call.
ListingOk(listing) ==
  /\ StrictlyAscending(listing)
  /\ \A reg \in registered : reg[1] \in Range(listing)

C4_ListingSortedComplete ==
  /\ ListingOk(list_commands)
  /\ last.op = "list" => ListingOk(last.result)

C4_Witness ==
  /\ last.op = "list"
  /\ Len(last.result) >= 2
  /\ \E i \in 1..Len(last.result) : last.result[i] \in DOMAIN async_commands
  /\ \E i \in 1..Len(last.result) : last.result[i] \in DOMAIN commands

\* C5 (as claimed): complete_command(prefix) is the ascending sequence of
\* exactly the command names and aliases that start with prefix.
Matching(prefix) == {s \in Primaries \cup Aliases : StartsWith(s, prefix)}

C5_CompleteExact ==
  \A prefix \in Prefixes :
    complete_command(prefix) = Sorted(SetToSeq(Matching(prefix)))

\* what the last dispatch was given, and what its first token resolves to
IsRun == last.op = "run"
Typed == last.args[1]
ResolvedNow == resolve_command(Typed)
HandlerOf(n) ==
  IF n \in DOMAIN commands THEN commands[n] ELSE async_commands[n]
FailureMessage == <<"Failed", ResolvedNow[1], ErrText>>

C7_HandlerCalledOnceWithTrailingTokens ==
  (/\ IsRun /\ last.args # <<>>
   /\ Typed # HelpFlag
   /\ ResolvedNow # None
   /\ (Len(last.args) > 1 => last.args[2] # HelpFlag)) =>
     /\ last.invoked = <<<<HandlerOf(ResolvedNow[1]), Tail(last.args)>>>>
     /\ last.ended = "ok" => (last.status = "returned" /\ last.exit = <<0>>)

\* C8 (as claimed): the dispatch reports an unknown command (notice, global
\* help, exit code 1, no handler called) exactly when args is not empty, its
\* first token is not "--help" and is neither a command name nor an alias.
UnknownNotice == last.out # <<>> /\ last.out[1][1] = "Unknown"

C8_UnknownIffUnregistered ==
  IsRun =>
    /\ UnknownNotice <=>
         (/\ last.args # <<>>
          /\ Typed # HelpFlag
          /\ Typed \notin Primaries \cup Aliases)
    /\ UnknownNotice =>
         /\ last.out = <<<<"Unknown", Typed>>, show_help>>
         /\ last.status = "returned" /\ last.exit = <<1>>
         /\ last.invoked = <<>>

\* the exit codes the claim C9 assigns to the paths of a finished dispatch
ExitCodesAsClaimed ==
  /\ last.status = "returned"
  /\ last.exit \in {<<0>>, <<1>>}
  /\ last.args = <<>> => (last.exit = <<1>> /\ last.out = <<<<"NoCommand">>, show_help>>)
  /\ (last.args # <<>> /\ Typed # HelpFlag /\ ResolvedNow = None) => last.exit = <<1>>
  /\ last.ended = "exc" => last.exit = <<1>>
  /\ (last.args # <<>> /\ Typed = HelpFlag) => last.exit = <<0>>
  /\ (last.out # <<>> /\ last.out[1][1] = "CommandHelp") => last.exit = <<0>>
  /\ last.ended = "ok" => last.exit = <<0>>

EndsAsAmended ==
  (IsRun /\ pc = "idle") =>
    \/ ExitCodesAsClaimed
    \/ /\ last.status = "raised" /\ last.ended = "base" /\ last.exit = <<>>
       /\ Len(last.invoked) = 1

C10_GlobalHelpFirst ==
  (IsRun /\ last.args # <<>> /\ Typed = HelpFlag) =>
    /\ last.status = "returned" /\ last.exit = <<0>>
    /\ last.out = <<show_help>>
    /\ last.resolved = None
    /\ last.invoked = <<>>
    /\ pc = "idle"

C10_Witness ==
  /\ IsRun /\ Len(last.args) > 1 /\ Typed = HelpFlag
  /\ HelpFlag \in Primaries
  /\ last.exit = <<0>>

\* C11 (as claimed): when the first token (not "--help") resolves, directly
\* or through an alias, to a command N and the second token is "--help",
\* the dispatch shows the stored doc of N under its primary name, returns 0
\* and calls no handler.
C11_CommandHelpOfPrimary ==
  (/\ IsRun /\ Len(last.args) > 1
   /\ Typed # HelpFlag
   /\ ResolvedNow # None
   /\ last.args[2] = HelpFlag) =>
     /\ ResolvedNow[1] \in DOMAIN docs
     /\ last.out = <<<<"CommandHelp", ResolvedNow[1], docs[ResolvedNow[1]]>>>>
     /\ last.status = "returned" /\ last.exit = <<0>>
     /\ last.invoked = <<>>

\* C12: a dispatch of an asynchronous command has no exit code while its
\* handler is suspended; the code appears only with the step that resolves
\* the last suspension, and it is 0 when the handler ended without error.
AsyncReturnsAfterHandler ==
  (IsRun /\ last.branch = "async") =>
    /\ pc = "awaiting" <=> last.status = "pending"
    /\ last.status = "pending" => (last.exit = <<>> /\ remaining > 0)
    /\ last.exit # <<>> => (remaining = 0 /\ last.ended \in {"ok", "exc"})
    /\ last.ended = "ok" => last.exit = <<0>>

SuspensionStep ==
  pc = "awaiting" =>
    /\ last'.suspended = last.suspended + 1
    /\ remaining' = remaining - 1
    /\ last'.exit # <<>> => remaining = 1

C12_AsyncReturnsAfterHandler ==
  /\ []AsyncReturnsAfterHandler
  /\ [][SuspensionStep]_vars

C12_Witness ==
  /\ IsRun /\ last.branch = "async"
  /\ last.suspended = MaxSuspend
  /\ last.ended = "ok" /\ last.exit = <<0>>

\* C13: a dispatch calls at most one handler: a synchronous handler has
\* ended when the dispatch step is over, and while an asynchronous handler
\* is suspended the dispatch calls nothing else.
OneHandlerPerDispatch ==
  IsRun =>
    /\ Len(last.invoked) <= 1
    /\ last.invoked # <<>> <=> last.branch \in {"sync", "async"}
    /\ last.branch = "sync" =>
         (pc = "idle" /\ last.status # "pending" /\ last.suspended = 0)

NoCallWhileSuspended ==
  pc = "awaiting" => (last'.op = "run" /\ last'.invoked = last.invoked)

C13_OneHandlerPerDispatch ==
  /\ []OneHandlerPerDispatch
  /\ [][NoCallWhileSuspended]_vars

C13_Witness ==
  /\ IsRun /\ last.branch = "async"
  /\ last.status = "returned" /\ last.suspended > 0 /\ last.ended = "exc"
  /\ Cardinality(Primaries) > 1

\* C14 (as claimed): the listing cache is empty or holds the sorted primary
\* names now stored, so list_commands omits no name that resolves to itself.
C14_CacheEmptyOrFresh ==
  /\ all_commands_cached = None \/ all_commands_cached[1] = ComputeListing
  /\ \A s \in Strs :
       resolve_command(s) = Some(s) => s \in Range(list_commands)

\* the calls of register_command that can be made in the current state
RegisterCalls == Strs \X Profiles \X AliasOrders
ResultOf(c) ==
  RegisterResult(c[1], c[2].handler, c[2].async_handler, c[3], c[2].doc)

CollidesBefore(c) ==
  ({c[1]} \cup Range(c[3])) \cap (Primaries \cup Aliases) # {}

InstalledBy(c, r) ==
  /\ IF c[2].async_handler
     THEN c[1] \in DOMAIN r.async_commands
          /\ r.async_commands[c[1]] = c[2].handler
     ELSE c[1] \in DOMAIN r.commands /\ r.commands[c[1]] = c[2].handler
  /\ c[1] \in DOMAIN r.docs
  /\ \A a \in Range(c[3]) : AliasGet(r.alias_map, a) = Some(c[1])

\* C15 (as claimed): a register call fails exactly when its name or one of
\* its aliases is a command name or an alias already in the registry; every
\* other call succeeds and installs the command with all its aliases.
C15_FailsIffCollision ==
  \A c \in RegisterCalls : \A r \in {ResultOf(c)} :
    /\ ~r.ok <=> CollidesBefore(c)
    /\ r.ok => InstalledBy(c, r)

\* C15 (amended): a register call fails exactly when its name or one of its
\* aliases is a command name or an alias already in the registry, or one of
\* its aliases is its own name; every other call succeeds and installs the
\* command with all its aliases.
C15_FailsIffCollisionOrOwnName ==
  \A c \in RegisterCalls : \A r \in {ResultOf(c)} :
    /\ ~r.ok <=> (CollidesBefore(c) \/ c[1] \in Range(c[3]))
    /\ r.ok => InstalledBy(c, r)

C15_Witness ==
  /\ last.op = "register" /\ last.ok
  /\ Len(alias_map) = MaxAliases
  /\ \E reg \in registered : Cardinality(reg[2]) = MaxAliases

\* C16: no step changes the handler, the mode or the doc of a stored
\* command or the target of a stored alias, and none removes a command or
\* an alias.
ModeOf(n) == IF n \in DOMAIN commands THEN "sync" ELSE "async"

NothingStoredChanges ==
  /\ \A n \in Primaries :
       /\ n \in Primaries'
       /\ HandlerOf(n)' = HandlerOf(n)
       /\ ModeOf(n)' = ModeOf(n)
       /\ n \in DOMAIN docs /\ n \in DOMAIN docs' /\ docs'[n] = docs[n]
  /\ \A a \in Aliases :
       AliasGet(alias_map', a) = AliasGet(alias_map, a)

C16_CommandsImmutable == [][NothingStoredChanges]_vars

C16_Witness ==
  /\ last.op = "register" /\ ~last.ok
  /\ registered # {}
  /\ Cardinality(Primaries) > Cardinality(registered)
  /\ Aliases # {}

\* C17: every alias targets a stored command that has a doc, whatever
\* resolves has a handler, and no dispatch reaches the "not found" branch
\* that follows a successful resolution.
C17_AliasesTargetCommands ==
  /\ \A i \in 1..Len(alias_map) :
       alias_map[i][2] \in Primaries \cap DOMAIN docs
  /\ \A s \in Strs :
       resolve_command(s) # None => resolve_command(s)[1] \in Primaries
  /\ \A args \in ArgLists : Branch(args) # "not_found"
  /\ IsRun => last.branch # "not_found"

C17_Witness ==
  /\ IsRun /\ last.args # <<>> /\ Typed \in Aliases
  /\ last.invoked # <<>>
  /\ Cardinality(Primaries) > Cardinality(registered)

\* C18: a step that is no register call (a dispatch step, a listing, a
\* completion, with the help and resolution they do) leaves the command
\* tables, the alias table and the docs as they are; it changes the cache
\* at most from empty to filled, and list_commands answers as before.
ReadOnlyStep ==
  last'.op # "register" =>
    /\ registry' = registry
    /\ \/ all_commands_cached' = all_commands_cached
       \/ /\ all_commands_cached = None
          /\ all_commands_cached' = Some(list_commands)
          /\ list_commands' = list_commands

C18_ReadsLeaveRegistry == [][ReadOnlyStep]_vars

C18_Witness ==
  /\ IsRun /\ last.branch = "global_help"
  /\ all_commands_cached # None
  /\ Len(list_commands) > 1
  /\ Aliases # {}

====
